---- MODULE Spec2Model ----
(***************************************************************************)
(* The notification rate limiter of JPL-tour-notifications.                *)
(*                                                                         *)
(* src/scraper.py is the production trigger: lambda_handler polls the tour *)
(* endpoint and, when tours are listed, send_voice_call places a Twilio    *)
(* call unless can_make_call finds a call placed in the last 15 minutes in *)
(* the DynamoDB table JplTourCallHistory.  Several invocations may overlap;*)
(* each is a sequence of blocking I/O calls, so an invocation is modelled  *)
(* as a process whose steps are those I/O calls.  Time is counted in       *)
(* minutes.                                                                *)
(***************************************************************************)
EXTENDS Integers, FiniteSets, Sequences, TLC

\* ---------------------------------------------------------------- bounds
\* The clock takes the readings 0, 1, 15, 16, 30, 31, ... up to the
\* MaxInstant-th of them.
MaxInstant == 5
\* Times the trigger fires.
MaxTriggers == 2

\* ------------------------------------------------------------- constants
\* timedelta(minutes=15)
cooldown_minutes == 15

\* Invocations that may overlap.
Invocations == {"a", "b"}

\* ALICE_PHONE_NUMBER, the one number the trigger calls.
your_phone_number == "alice"
\* The default recipient of the test entry point.
TEST_PHONE_NUMBER == "+15555555556"
\* The keys of the table.
PhoneNumbers == {your_phone_number, TEST_PHONE_NUMBER}

\* Clock readings: each window boundary and the minute after it.
Instants == {(i \div 2) * cooldown_minutes + (i % 2) : i \in 0..MaxInstant}

\* An optional value: <<>> (none) or <<v>>.
None == <<>>
Some(v) == <<v>>

\* get_item's response without 'Item'.
NoItem == <<>>
\* A last_call_time attribute that datetime.fromisoformat rejects.
Junk == <<"junk">>

\* datetime.isoformat(): the text of a clock reading.
isoformat(t) == <<"iso", t>>
\* datetime.fromisoformat(): defined on the texts isoformat produces.
parses(item) == Len(item) = 2 /\ item[1] = "iso"
fromisoformat(item) == item[2]

VARIABLES
    clock,          \* datetime.now(), in minutes
    table_status,   \* of JplTourCallHistory: "ABSENT", "CREATING", "ACTIVE"
    table,          \* phone_number -> NoItem or the item's last_call_time
    pc,             \* invocation -> the I/O call it is about to make
    phone,          \* invocation -> your_phone_number of its deployment
    response,       \* invocation -> what get_item returned
    current_time,   \* invocation -> datetime.now() of can_make_call
    eligible,       \* invocation -> can_make_call's result, once it has one
    call,           \* invocation -> None, or <<status code, time>> of its
                    \* POST (status code 0: the POST raised)
    caught,         \* invocation -> what create_table_if_not_exists's
                    \* except clause caught from the table_status read
    raised,         \* invocation -> the call whose exception ended it
    outcome,        \* invocation -> how send_voice_call ended
    \* history: it decides no step of an invocation
    last_call,      \* phone_number -> None or <<time, current_time>> of
                    \* the latest call Twilio accepted and of its invocation
    committed,      \* phone_number -> None or <<time>> of the latest
                    \* accepted call whose put_item has committed
    seen_committed, \* invocation -> committed[phone] when it ran get_item
    \* the trigger
    fired,          \* times the trigger has fired
    \* src/rate-limit-test.py, the operator's test entry point
    test_type,      \* invocation -> event['test_type']
    test_number,    \* invocation -> the test it is running (0: none)
    results,        \* invocation -> its results dict
    deleted,        \* invocation -> None, or <<how delete_item ended, the
                    \* item it found>> of its latest clear_call_history
    body            \* invocation -> None, or the body it returned

vars == <<clock, table_status, table, pc, phone, response, current_time,
          eligible, call, caught, raised, outcome, last_call, committed,
          seen_committed, fired, test_type, test_number, results, deleted,
          body>>

locals == <<phone, response, current_time, eligible, call, caught, raised,
            outcome, seen_committed>>

harness == <<test_type, test_number, results, deleted, body>>

history == <<last_call, committed>>

Max(a, b) == IF a >= b THEN a ELSE b

\* ------------------------------------------------------------------ Init
\* The results dict of the test entry point before any test has run
\* (rate-limit-test.py:139-142).
NoResults == [test_results |-> <<>>, overall_success |-> TRUE]

\* No invocation has started.
NothingRun ==
    /\ pc = [p \in Invocations |-> "idle"]
    /\ response = [p \in Invocations |-> NoItem]
    /\ current_time = [p \in Invocations |-> 0]
    /\ eligible = [p \in Invocations |-> "unknown"]
    /\ call = [p \in Invocations |-> None]
    /\ caught = [p \in Invocations |-> ""]
    /\ raised = [p \in Invocations |-> ""]
    /\ outcome = [p \in Invocations |-> ""]
    /\ last_call = [n \in PhoneNumbers |-> None]
    /\ committed = [n \in PhoneNumbers |-> None]
    /\ seen_committed = [p \in Invocations |-> None]
    /\ fired = 0
    /\ test_type = [p \in Invocations |-> ""]
    /\ test_number = [p \in Invocations |-> 0]
    /\ results = [p \in Invocations |-> NoResults]
    /\ deleted = [p \in Invocations |-> None]
    /\ body = [p \in Invocations |-> None]

\* The table outlives every invocation: at the first one it is absent, or
\* present with no item or with an item some other writer left.
Init ==
    /\ clock = 0
    /\ table_status \in {"ABSENT", "ACTIVE"}
    /\ table \in [PhoneNumbers -> {NoItem, Junk}]
    /\ (table_status = "ABSENT" => \A n \in PhoneNumbers : table[n] = NoItem)
    /\ \A n \in PhoneNumbers \ {your_phone_number} : table[n] = NoItem
    /\ phone = [p \in Invocations |-> your_phone_number]
    /\ NothingRun

\* ------------------------------------------------------------ environment
\* Time passes.
Tick ==
    /\ \E t \in Instants : t > clock /\ clock' = t
    /\ UNCHANGED <<table_status, table, pc, locals, history, fired, harness>>

\* DynamoDB finishes creating the table.
table_becomes_active ==
    /\ table_status = "CREATING"
    /\ table_status' = "ACTIVE"
    /\ UNCHANGED <<clock, table, pc, locals, history, fired, harness>>

\* An exception nothing catches ends the invocation.
Abort(p, where) ==
    /\ pc' = [pc EXCEPT ![p] = "aborted"]
    /\ raised' = [raised EXCEPT ![p] = where]

\* ---------------------------------------------------------------- steps
\* The trigger starts an invocation.
lambda_handler(p) ==
    /\ pc[p] = "idle"
    /\ fired < MaxTriggers
    /\ fired' = fired + 1
    /\ pc' = [pc EXCEPT ![p] = "check"]
    /\ UNCHANGED <<clock, table_status, table, locals, history, harness>>

\* The poll: tours listed, none listed, or the request or its parsing raises.
check_jpl_tour_availability(p) ==
    /\ pc[p] = "check"
    /\ \/ /\ pc' = [pc EXCEPT ![p] = "table_status"]
          /\ UNCHANGED <<raised, outcome>>
       \/ /\ pc' = [pc EXCEPT ![p] = "returned"]
          /\ outcome' = [outcome EXCEPT ![p] = "NoTours"]
          /\ UNCHANGED raised
       \/ /\ Abort(p, "check")
          /\ UNCHANGED outcome
    /\ UNCHANGED <<clock, table_status, table, phone, caught, response, current_time,
                   eligible, call, seen_committed, history, fired, harness>>

\* A variant of table_exists: the table always looks absent.
table_never_exists(status) == FALSE

\* dynamodb.Table(...).table_status answers for a table that is being
\* created or is active, and raises ResourceNotFoundException otherwise.
table_exists(status) == status # "ABSENT"

\* create_table_if_not_exists, the table_status read: it answers and the
\* function returns, or it raises (the table is absent, or DescribeTable
\* failed) and the bare except leads to create_table.
describe_table(p) ==
    /\ pc[p] = "table_status"
    /\ \/ /\ table_exists(table_status)
          /\ pc' = [pc EXCEPT ![p] = "get_item"]
          /\ UNCHANGED caught
       \/ /\ ~table_exists(table_status)
          /\ caught' = [caught EXCEPT ![p] = "ResourceNotFoundException"]
          /\ pc' = [pc EXCEPT ![p] = "create_table"]
       \/ /\ caught' = [caught EXCEPT ![p] = "EndpointConnectionError"]
          /\ pc' = [pc EXCEPT ![p] = "create_table"]
    /\ UNCHANGED <<clock, table_status, table, phone, response, current_time,
                   eligible, call, raised, outcome, seen_committed, history,
                   fired, harness>>

\* create_table: creates an absent table, raises ResourceInUseException on
\* an existing one, or raises because the backend is unavailable.  Nothing
\* in create_table_if_not_exists or its callers catches either.
create_table(p) ==
    /\ pc[p] = "create_table"
    /\ \/ /\ table_status = "ABSENT"
          /\ table_status' = "CREATING"
          /\ pc' = [pc EXCEPT ![p] = "wait"]
          /\ caught' = [caught EXCEPT ![p] = ""]
          /\ UNCHANGED raised
       \/ /\ table_status # "ABSENT"
          /\ Abort(p, "ResourceInUseException")
          /\ UNCHANGED <<table_status, caught>>
       \/ /\ Abort(p, "create_table")
          /\ UNCHANGED <<table_status, caught>>
    /\ UNCHANGED <<clock, table, phone, response, current_time, eligible,
                   call, outcome, seen_committed, history, fired, harness>>

\* get_waiter('table_exists').wait
wait_table_exists(p) ==
    /\ pc[p] = "wait"
    /\ table_status = "ACTIVE"
    /\ pc' = [pc EXCEPT ![p] = "get_item"]
    /\ UNCHANGED <<clock, table_status, table, locals, history, fired, harness>>

\* table.get_item: the item of the key, or an exception (the table is not
\* active, or the backend is unavailable or timed out).
get_item(p) ==
    /\ pc[p] = "get_item"
    /\ seen_committed' = [seen_committed EXCEPT ![p] = committed[phone[p]]]
    /\ \/ /\ table_status = "ACTIVE"
          /\ response' = [response EXCEPT ![p] = table[phone[p]]]
          /\ pc' = [pc EXCEPT ![p] = "now"]
          /\ UNCHANGED raised
       \/ /\ Abort(p, "get_item")
          /\ UNCHANGED response
    /\ UNCHANGED <<clock, table_status, table, phone, caught, current_time, eligible,
                   call, outcome, history, fired, harness>>

\* Variants of time_difference_ok, each a slip in can_make_call.
time_difference_ge(item, now) ==
    IF item = NoItem THEN "True"
    ELSE IF ~parses(item) THEN "ValueError"
    ELSE IF now - fromisoformat(item) >= cooldown_minutes THEN "True"
    ELSE "False"

time_difference_one_minute(item, now) ==
    IF item = NoItem THEN "True"
    ELSE IF ~parses(item) THEN "ValueError"
    ELSE IF now - fromisoformat(item) > 1 THEN "True"
    ELSE "False"

time_difference_reversed(item, now) ==
    IF item = NoItem THEN "True"
    ELSE IF ~parses(item) THEN "ValueError"
    ELSE IF now - fromisoformat(item) < cooldown_minutes THEN "True"
    ELSE "False"

time_difference_no_item_false(item, now) ==
    IF item = NoItem THEN "False"
    ELSE IF ~parses(item) THEN "ValueError"
    ELSE IF now - fromisoformat(item) > cooldown_minutes THEN "True"
    ELSE "False"

time_difference_once_only(item, now) ==
    IF item = NoItem THEN "True"
    ELSE IF ~parses(item) THEN "ValueError"
    ELSE "False"

time_difference_junk_true(item, now) ==
    IF item = NoItem \/ ~parses(item) THEN "True"
    ELSE IF now - fromisoformat(item) > cooldown_minutes THEN "True"
    ELSE "False"

\* can_make_call's result on a response at a clock reading: True, False,
\* or the ValueError of fromisoformat.
time_difference_ok(item, now) ==
    IF item = NoItem THEN "True"
    ELSE IF ~parses(item) THEN "ValueError"
    ELSE IF now - fromisoformat(item) > cooldown_minutes THEN "True"
    ELSE "False"

\* A variant of rate_limit_applied: the result is never looked at.
rate_limit_never_applied(result) == FALSE

\* send_voice_call's "if not can_make_call(): return".
rate_limit_applied(result) == result # "True"

\* can_make_call after get_item, and send_voice_call's early return.
can_make_call(p) ==
    /\ pc[p] = "now"
    /\ current_time' = [current_time EXCEPT ![p] = clock]
    /\ LET result == time_difference_ok(response[p], clock) IN
       IF result = "ValueError"
       THEN /\ Abort(p, "fromisoformat")
            /\ UNCHANGED <<eligible, outcome>>
       ELSE /\ eligible' = [eligible EXCEPT ![p] = result]
            /\ UNCHANGED raised
            /\ IF rate_limit_applied(result)
               THEN /\ pc' = [pc EXCEPT ![p] = "returned"]
                    /\ outcome' = [outcome EXCEPT ![p] = "Suppressed"]
               ELSE /\ pc' = [pc EXCEPT ![p] = "post"]
                    /\ UNCHANGED outcome
    /\ UNCHANGED <<clock, table_status, table, phone, caught, response, call,
                   seen_committed, history, fired, harness>>

\* Twilio's answers: 201 Created, or a status that is not.
StatusCodes == {201, 400}

\* A variant of call_was_made: every answer counts as a call.
call_always_made(status_code) == TRUE

\* send_voice_call's "if response.status_code == 201".
call_was_made(status_code) == status_code = 201

\* requests.post to Twilio, and what send_voice_call does with the answer:
\* a status code, or an exception.
requests_post(p) ==
    /\ pc[p] = "post"
    /\ \/ \E status_code \in StatusCodes :
            /\ call' = [call EXCEPT ![p] = Some(<<status_code, clock>>)]
            /\ last_call' = [last_call EXCEPT ![phone[p]] =
                    IF status_code = 201
                    THEN Some(<<clock, current_time[p]>>) ELSE @]
            /\ IF call_was_made(status_code)
               THEN /\ pc' = [pc EXCEPT ![p] = "put_item"]
                    /\ UNCHANGED outcome
               ELSE /\ pc' = [pc EXCEPT ![p] = "returned"]
                    /\ outcome' = [outcome EXCEPT ![p] = "Error"]
            /\ UNCHANGED raised
       \/ /\ call' = [call EXCEPT ![p] = Some(<<0, clock>>)]
          /\ Abort(p, "post")
          /\ UNCHANGED <<outcome, last_call>>
    /\ UNCHANGED <<clock, table_status, table, phone, caught, response, current_time,
                   eligible, seen_committed, committed, fired, harness>>

\* Variants of new_item: the clock reading of the eligibility decision is
\* written; an item already there is kept.
new_item_decision_time(p) == isoformat(current_time[p])

new_item_first_writer_wins(p) ==
    IF table[phone[p]] = NoItem THEN isoformat(clock) ELSE table[phone[p]]

\* The last_call_time update_last_call_time writes: a fresh clock reading.
new_item(p) == isoformat(clock)

\* update_last_call_time: put_item of a fresh clock reading, or an exception.
update_last_call_time(p) ==
    /\ pc[p] = "put_item"
    /\ \/ /\ table_status = "ACTIVE"
          /\ table' = [table EXCEPT ![phone[p]] = new_item(p)]
          /\ committed' = [committed EXCEPT ![phone[p]] =
                IF call[p][1][1] # 201 THEN @
                ELSE IF @ = None THEN Some(call[p][1][2])
                ELSE Some(Max(@[1], call[p][1][2]))]
          /\ pc' = [pc EXCEPT ![p] = "returned"]
          /\ outcome' = [outcome EXCEPT ![p] = "Sent"]
          /\ UNCHANGED raised
       \/ /\ Abort(p, "put_item")
          /\ UNCHANGED <<table, committed, outcome>>
    /\ UNCHANGED <<clock, table_status, phone, caught, response, current_time,
                   eligible, call, seen_committed, last_call, fired, harness>>

\* The invocation is over; the trigger may fire again.
next_invocation(p) ==
    /\ pc[p] \in {"returned", "aborted"}
    /\ pc' = [pc EXCEPT ![p] = "idle"]
    /\ response' = [response EXCEPT ![p] = NoItem]
    /\ current_time' = [current_time EXCEPT ![p] = 0]
    /\ eligible' = [eligible EXCEPT ![p] = "unknown"]
    /\ call' = [call EXCEPT ![p] = None]
    /\ caught' = [caught EXCEPT ![p] = ""]
    /\ raised' = [raised EXCEPT ![p] = ""]
    /\ outcome' = [outcome EXCEPT ![p] = ""]
    /\ seen_committed' = [seen_committed EXCEPT ![p] = None]
    /\ UNCHANGED <<clock, table_status, table, phone, history, fired,
                   harness>>

Next ==
    \/ Tick
    \/ table_becomes_active
    \/ \E p \in Invocations :
        \/ lambda_handler(p)
        \/ check_jpl_tour_availability(p)
        \/ describe_table(p)
        \/ create_table(p)
        \/ wait_table_exists(p)
        \/ get_item(p)
        \/ can_make_call(p)
        \/ requests_post(p)
        \/ update_last_call_time(p)
        \/ next_invocation(p)

Spec == Init /\ [][Next]_vars

\* ------------------------------------------------- the trigger keeps firing
\* The schedule starts an invocation, any number of times.
scheduled_event(p) ==
    /\ pc[p] = "idle"
    /\ pc' = [pc EXCEPT ![p] = "check"]
    /\ UNCHANGED <<clock, table_status, table, locals, history, fired,
                   harness>>

\* The steps of one invocation after the trigger.
Attempt(p) ==
    \/ check_jpl_tour_availability(p)
    \/ describe_table(p)
    \/ create_table(p)
    \/ wait_table_exists(p)
    \/ get_item(p)
    \/ can_make_call(p)
    \/ requests_post(p)
    \/ update_last_call_time(p)
    \/ next_invocation(p)

\* The invocations of a schedule whose period exceeds an invocation's run
\* time: one at a time.
Scheduled == {"a"}

LiveNext ==
    \/ Tick
    \/ table_becomes_active
    \/ \E p \in Scheduled : scheduled_event(p) \/ Attempt(p)

\* Time advances, the trigger keeps firing and every started step is taken;
\* the poll keeps finding tours, DynamoDB keeps answering and Twilio keeps
\* accepting: each call that can succeed again and again does succeed again
\* and again.
Fairness ==
    /\ WF_vars(Tick)
    /\ WF_vars(table_becomes_active)
    /\ \A p \in Scheduled :
        /\ WF_vars(scheduled_event(p))
        /\ WF_vars(Attempt(p))
        /\ SF_vars(check_jpl_tour_availability(p)
                   /\ pc'[p] = "table_status")
        /\ SF_vars(describe_table(p)
                   /\ caught'[p] # "EndpointConnectionError")
        /\ SF_vars(create_table(p) /\ pc'[p] = "wait")
        /\ SF_vars(get_item(p) /\ pc'[p] = "now")
        /\ SF_vars(requests_post(p) /\ pc'[p] = "put_item")
        /\ SF_vars(update_last_call_time(p) /\ pc'[p] = "returned")

LiveSpec == Init /\ [][LiveNext]_vars /\ Fairness

\* ------------------------------------------- the operator's test entry point
\* src/rate-limit-test.py: its own lambda_handler, run by an operator, one
\* invocation at a time, against the same table.
Operators == {"a"}

\* event['test_type']
TestTypes == {"reset", "full", "test1", "test2", "test3"}

\* What the scheduled invocations' state holds and the test never touches.
untested == <<call, outcome, seen_committed, last_call, committed>>

\* The table at the operator's first invocation: absent, or active with, for
\* each key, no item, an unparsable item or the time of a call just made.
TestInit ==
    /\ clock = 0
    /\ table_status \in {"ABSENT", "ACTIVE"}
    /\ table \in [PhoneNumbers -> {NoItem, Junk, isoformat(0)}]
    /\ (table_status = "ABSENT" => \A n \in PhoneNumbers : table[n] = NoItem)
    /\ phone = [p \in Invocations |-> TEST_PHONE_NUMBER]
    /\ NothingRun

\* A variant of Key: the recipient of the event is ignored.
Key_default(p) == TEST_PHONE_NUMBER

\* Key={'phone_number': phone_number} of get_item, put_item and delete_item.
Key(p) == phone[p]

\* run_test's expected_result for each test number.
Expected(test) == test # 2

\* results after the append of one test and the overall_success update.
Appended(res, test, actual) ==
    [test_results |-> Append(res.test_results,
                             [test |-> test,
                              expected |-> Expected(test),
                              actual |-> actual,
                              passed |-> (actual = Expected(test))]),
     overall_success |-> IF actual # Expected(test) THEN FALSE
                         ELSE res.overall_success]

\* Where lambda_handler goes once the table is there, and after a test:
\* <<the next call, the test it belongs to>>.
AfterSchema(type) ==
    IF type = "reset" THEN <<"delete_item", 0>>
    ELSE IF type \in {"full", "test1"} THEN <<"delete_item", 1>>
    ELSE IF type = "test2" THEN <<"t_get_item", 2>>
    ELSE <<"past_put_item", 4>>

AfterTest(type, test) ==
    IF type = "full" /\ test = 1 THEN <<"t_get_item", 2>>
    ELSE IF type = "full" /\ test = 2 THEN <<"past_put_item", 4>>
    ELSE <<"returned", 0>>

\* lambda_handler moves on with the results it has; at the end it returns
\* them as the body.
Goto(p, next, res) ==
    /\ pc' = [pc EXCEPT ![p] = next[1]]
    /\ test_number' = [test_number EXCEPT ![p] = next[2]]
    /\ results' = [results EXCEPT ![p] = res]
    /\ body' = [body EXCEPT ![p] =
            IF next[1] = "returned" THEN Some(<<"results", res>>) ELSE @]

\* The operator invokes the test with a test_type and a phone_number.
test_lambda_handler(p) ==
    /\ pc[p] = "idle"
    /\ fired < MaxTriggers
    /\ fired' = fired + 1
    /\ \E type \in TestTypes, n \in PhoneNumbers :
        /\ test_type' = [test_type EXCEPT ![p] = type]
        /\ phone' = [phone EXCEPT ![p] = n]
    /\ pc' = [pc EXCEPT ![p] = "t_table_status"]
    /\ UNCHANGED <<clock, table_status, table, response, current_time,
                   eligible, caught, raised, untested, test_number, results,
                   deleted, body>>

\* create_table_if_not_exists of the test, the table_status read: it
\* answers, or raises a ClientError (the table is absent, or the request
\* was refused) that is caught, or raises something else.
test_describe_table(p) ==
    /\ pc[p] = "t_table_status"
    /\ \/ /\ table_exists(table_status)
          /\ Goto(p, AfterSchema(test_type[p]), results[p])
          /\ UNCHANGED <<caught, raised>>
       \/ /\ ~table_exists(table_status)
          /\ caught' = [caught EXCEPT ![p] = "ResourceNotFoundException"]
          /\ pc' = [pc EXCEPT ![p] = "t_create_table"]
          /\ UNCHANGED <<raised, test_number, results, body>>
       \/ /\ caught' = [caught EXCEPT ![p] = "ClientError"]
          /\ pc' = [pc EXCEPT ![p] = "t_create_table"]
          /\ UNCHANGED <<raised, test_number, results, body>>
       \/ /\ Abort(p, "table_status")
          /\ UNCHANGED <<caught, test_number, results, body>>
    /\ UNCHANGED <<clock, table_status, table, phone, response, current_time,
                   eligible, untested, fired, test_type, deleted>>

\* create_table of the test.
test_create_table(p) ==
    /\ pc[p] = "t_create_table"
    /\ \/ /\ table_status = "ABSENT"
          /\ table_status' = "CREATING"
          /\ pc' = [pc EXCEPT ![p] = "t_wait"]
          /\ caught' = [caught EXCEPT ![p] = ""]
          /\ UNCHANGED raised
       \/ /\ table_status # "ABSENT"
          /\ Abort(p, "ResourceInUseException")
          /\ UNCHANGED <<table_status, caught>>
       \/ /\ Abort(p, "create_table")
          /\ UNCHANGED <<table_status, caught>>
    /\ UNCHANGED <<clock, table, phone, response, current_time, eligible,
                   untested, fired, harness>>

\* The waiter of the test, and where lambda_handler goes next.
test_wait_table_exists(p) ==
    /\ pc[p] = "t_wait"
    /\ table_status = "ACTIVE"
    /\ Goto(p, AfterSchema(test_type[p]), results[p])
    /\ UNCHANGED <<clock, table_status, table, phone, response, current_time,
                   eligible, caught, raised, untested, fired, test_type,
                   deleted>>

\* A variant of after_delete: the item stays.
after_delete_kept(item) == item

\* What delete_item leaves under the key.
after_delete(item) == NoItem

\* clear_call_history: delete_item removes the item of the key; a
\* ClientError is printed and swallowed; anything else is raised.  In reset
\* mode lambda_handler then returns its message.
clear_call_history(p) ==
    /\ pc[p] = "delete_item"
    /\ \/ /\ table_status = "ACTIVE"
          /\ table' = [table EXCEPT ![Key(p)] = after_delete(@)]
          /\ deleted' = [deleted EXCEPT ![p] =
                    Some(<<"deleted", table[Key(p)] # NoItem>>)]
       \/ /\ deleted' = [deleted EXCEPT ![p] =
                    Some(<<"ClientError", table[Key(p)] # NoItem>>)]
          /\ UNCHANGED table
    /\ IF test_type[p] = "reset"
       THEN /\ pc' = [pc EXCEPT ![p] = "returned"]
            /\ body' = [body EXCEPT ![p] =
                    Some(<<"message", "Call history reset successfully">>)]
       ELSE /\ pc' = [pc EXCEPT ![p] = "t_get_item"]
            /\ UNCHANGED body
    /\ UNCHANGED <<clock, table_status, phone, response, current_time,
                   eligible, caught, raised, untested, fired, test_type,
                   test_number, results>>

\* delete_item raises something that is not a ClientError.
clear_call_history_raises(p) ==
    /\ pc[p] = "delete_item"
    /\ Abort(p, "delete_item")
    /\ UNCHANGED <<clock, table_status, table, phone, response, current_time,
                   eligible, caught, untested, fired, harness>>

\* can_make_call of the test: get_item.
test_get_item(p) ==
    /\ pc[p] = "t_get_item"
    /\ \/ /\ table_status = "ACTIVE"
          /\ response' = [response EXCEPT ![p] = table[Key(p)]]
          /\ pc' = [pc EXCEPT ![p] = "t_now"]
          /\ UNCHANGED raised
       \/ /\ Abort(p, "get_item")
          /\ UNCHANGED response
    /\ UNCHANGED <<clock, table_status, table, phone, current_time, eligible,
                   caught, untested, fired, harness>>

\* can_make_call of the test after get_item, and mock_send_voice_call's
\* early return: run_test's result is False and lambda_handler records it.
test_can_make_call(p) ==
    /\ pc[p] = "t_now"
    /\ current_time' = [current_time EXCEPT ![p] = clock]
    /\ LET result == time_difference_ok(response[p], clock) IN
       IF result = "ValueError"
       THEN /\ Abort(p, "fromisoformat")
            /\ UNCHANGED <<eligible, test_number, results, body>>
       ELSE /\ eligible' = [eligible EXCEPT ![p] = result]
            /\ UNCHANGED raised
            /\ IF rate_limit_applied(result)
               THEN Goto(p, AfterTest(test_type[p], test_number[p]),
                         Appended(results[p], test_number[p], FALSE))
               ELSE /\ pc' = [pc EXCEPT ![p] = "t_put_item"]
                    /\ UNCHANGED <<test_number, results, body>>
    /\ UNCHANGED <<clock, table_status, table, phone, response, caught,
                   untested, fired, test_type, deleted>>

\* update_last_call_time of the test: run_test's result is True and
\* lambda_handler records it.
test_update_last_call_time(p) ==
    /\ pc[p] = "t_put_item"
    /\ \/ /\ table_status = "ACTIVE"
          /\ table' = [table EXCEPT ![Key(p)] = new_item(p)]
          /\ Goto(p, AfterTest(test_type[p], test_number[p]),
                  Appended(results[p], test_number[p], TRUE))
          /\ UNCHANGED raised
       \/ /\ Abort(p, "put_item")
          /\ UNCHANGED <<table, test_number, results, body>>
    /\ UNCHANGED <<clock, table_status, phone, response, current_time,
                   eligible, caught, untested, fired, test_type, deleted>>

\* Minutes by which test 3 dates the record back.
minutes_ago == 16

\* Test 3 puts a last_call_time of 16 minutes ago.
put_past_time(p) ==
    /\ pc[p] = "past_put_item"
    /\ \/ /\ table_status = "ACTIVE"
          /\ table' = [table EXCEPT ![Key(p)] = isoformat(clock - minutes_ago)]
          /\ pc' = [pc EXCEPT ![p] = "t_get_item"]
          /\ UNCHANGED raised
       \/ /\ Abort(p, "past_put_item")
          /\ UNCHANGED table
    /\ UNCHANGED <<clock, table_status, phone, response, current_time,
                   eligible, caught, untested, fired, harness>>

\* The test invocation is over; the operator may invoke again.
test_next_invocation(p) ==
    /\ pc[p] \in {"returned", "aborted"}
    /\ pc' = [pc EXCEPT ![p] = "idle"]
    /\ phone' = [phone EXCEPT ![p] = TEST_PHONE_NUMBER]
    /\ response' = [response EXCEPT ![p] = NoItem]
    /\ current_time' = [current_time EXCEPT ![p] = 0]
    /\ eligible' = [eligible EXCEPT ![p] = "unknown"]
    /\ caught' = [caught EXCEPT ![p] = ""]
    /\ raised' = [raised EXCEPT ![p] = ""]
    /\ test_type' = [test_type EXCEPT ![p] = ""]
    /\ test_number' = [test_number EXCEPT ![p] = 0]
    /\ results' = [results EXCEPT ![p] = NoResults]
    /\ deleted' = [deleted EXCEPT ![p] = None]
    /\ body' = [body EXCEPT ![p] = None]
    /\ UNCHANGED <<clock, table_status, table, untested, fired>>

TestNext ==
    \/ Tick
    \/ table_becomes_active
    \/ \E p \in Operators :
        \/ test_lambda_handler(p)
        \/ test_describe_table(p)
        \/ test_create_table(p)
        \/ test_wait_table_exists(p)
        \/ clear_call_history(p)
        \/ clear_call_history_raises(p)
        \/ test_get_item(p)
        \/ test_can_make_call(p)
        \/ test_update_last_call_time(p)
        \/ put_past_time(p)
        \/ test_next_invocation(p)

TestSpec == TestInit /\ [][TestNext]_vars

\* ---------------------------------------------------------------- claims
\* The invocation has read the clock in can_make_call.
ClockRead(p) == eligible[p] # "unknown" \/ raised[p] = "fromisoformat"
\* The invocation has sent its POST to Twilio.
Invoked(p) == call[p] # None
\* Twilio answered the invocation's POST with 201.
Accepted(p) == call[p] # None /\ call[p][1][1] = 201
\* The time of the invocation's POST.
CallTime(p) == call[p][1][2]
\* The step is p's clock reading and decision.
Decides(p) == pc[p] = "now" /\ pc'[p] # "now"
\* Minutes between the stored last_call_time p read and a clock reading.
Elapsed(p, now) == now - fromisoformat(response[p])

\* C1 as stated: whatever the interleaving, Twilio never accepts two calls to
\* one number at times at most 15 minutes apart.
\* (Time only moves forward, so the call nearest in time to a new one is the
\* latest before it.)
C1_NeverTwoCallsWithinWindow ==
    [][\A p \in Invocations :
         (~Accepted(p) /\ Accepted(p)' /\ last_call[phone[p]] # None)
         => clock - last_call[phone[p]][1][1] > cooldown_minutes]_vars

\* C1 amended: a call Twilio accepts comes more than 15 minutes after every
\* earlier accepted call to the number whose put_item had committed before the
\* later invocation ran its get_item.
C1_NoCallWithinWindowOfCommittedCall ==
    \A p \in Invocations :
        (Accepted(p) /\ seen_committed[p] # None)
        => CallTime(p) - seen_committed[p][1] > cooldown_minutes

\* Witness C1: an invocation that read the table after an earlier call had
\* been recorded has itself placed an accepted call.
C1_Witness ==
    \E p \in Invocations : Accepted(p) /\ seen_committed[p] # None

\* C2 as stated: an Attempt that reads the clock at T2, at most 15 minutes
\* after an accepted call at T1 < T2, returns Suppressed and makes no POST.
\* (T1 ranges over the latest accepted call only: a violation of this formula
\* is a violation of the claim.)
C2_SuppressedWithinWindow ==
    [][\A p \in Invocations :
         (/\ Decides(p)
          /\ last_call[phone[p]] # None
          /\ last_call[phone[p]][1][1] < clock
          /\ clock - last_call[phone[p]][1][1] <= cooldown_minutes)
         => (pc'[p] = "returned" /\ outcome'[p] = "Suppressed"
             /\ ~Invoked(p)')]_vars

\* C2 amended: an Attempt that reads the clock at T2, at most 15 minutes after
\* an accepted call at T1 < T2 whose put_item had committed before the
\* Attempt's get_item, returns Suppressed and makes no POST.
C2_SuppressedWithinWindowOfCommittedCall ==
    \A p \in Invocations :
        (/\ ClockRead(p)
         /\ seen_committed[p] # None
         /\ seen_committed[p][1] < current_time[p]
         /\ current_time[p] - seen_committed[p][1] <= cooldown_minutes)
        => (pc[p] = "returned" /\ outcome[p] = "Suppressed" /\ ~Invoked(p))

\* Witness C2: such an Attempt has been suppressed.
C2_Witness ==
    \E p \in Invocations :
        /\ outcome[p] = "Suppressed"
        /\ seen_committed[p] # None
        /\ seen_committed[p][1] < current_time[p]
        /\ current_time[p] - seen_committed[p][1] <= cooldown_minutes

\* C3 as stated: an Attempt that reads the clock at T2, more than 15 minutes
\* after the clock reading T1 of the Attempt that made the latest accepted
\* call, is eligible and goes on to the POST.
C3_EligibleAfterWindow ==
    [][\A p \in Invocations :
         (/\ Decides(p)
          /\ last_call[phone[p]] # None
          /\ clock - last_call[phone[p]][1][2] > cooldown_minutes)
         => pc'[p] = "post"]_vars

\* C4: an Attempt whose get_item found no item is eligible at every clock
\* reading: it goes on to the POST.
C4_NoRecordAlwaysEligible ==
    \A p \in Invocations :
        (ClockRead(p) /\ response[p] = NoItem)
        => (eligible[p] = "True" /\ (pc[p] = "post" \/ Invoked(p)))

\* Witness C4: an Attempt that found no item has sent its POST, at a clock
\* reading other than the first.
C4_Witness ==
    \E p \in Invocations :
        ClockRead(p) /\ response[p] = NoItem /\ Invoked(p)
        /\ current_time[p] > cooldown_minutes

\* C5: at exactly 15 minutes since the stored last_call_time the Attempt
\* returns Suppressed, sends no POST and writes nothing; it goes on to the
\* POST only at more than 15 minutes.
C5_StrictBoundary ==
    [][\A p \in Invocations :
         (Decides(p) /\ parses(response[p]))
         => /\ Elapsed(p, clock) = cooldown_minutes
               => (pc'[p] = "returned" /\ outcome'[p] = "Suppressed"
                   /\ ~Invoked(p)' /\ table' = table)
            /\ pc'[p] = "post" => Elapsed(p, clock) > cooldown_minutes]_vars

\* Witness C5: an Attempt was suppressed at exactly 15 minutes.
C5_Witness ==
    \E p \in Invocations :
        /\ outcome[p] = "Suppressed"
        /\ parses(response[p])
        /\ Elapsed(p, current_time[p]) = cooldown_minutes

\* C6: when Twilio answers an eligible Attempt's POST with a status other than
\* 201, the Attempt ends in Error and the step writes nothing: the table is
\* what it was, and where it still holds what the Attempt had read, an Attempt
\* a minute later is eligible.
C6_NotifyFailureWritesNothing ==
    [][\A p \in Invocations :
         (pc[p] = "post" /\ Invoked(p)' /\ call'[p][1][1] \notin {0, 201})
         => /\ pc'[p] = "returned"
            /\ outcome'[p] = "Error"
            /\ table' = table
            /\ committed' = committed
            /\ table'[phone[p]] = response[p]
               => time_difference_ok(table'[phone[p]], clock + 1) = "True"]_vars

\* Witness C6: an Attempt ended in Error after a rejected POST, and another
\* one, a minute later and reading the same record, is eligible.
C6_Witness ==
    \E p, q \in Invocations :
        /\ p # q
        /\ outcome[p] = "Error"
        /\ eligible[q] = "True"
        /\ current_time[q] = CallTime(p) + 1
        /\ response[q] = response[p]

\* C7: an Attempt that is not eligible returns Suppressed at once: it sends no
\* POST and the step changes neither the table nor the record of calls.
C7_SuppressedHasNoEffect ==
    [][\A p \in Invocations :
         (Decides(p) /\ time_difference_ok(response[p], clock) = "False")
         => /\ pc'[p] = "returned"
            /\ outcome'[p] = "Suppressed"
            /\ ~Invoked(p)'
            /\ table' = table
            /\ table_status' = table_status
            /\ last_call' = last_call]_vars

\* Witness C7: an Attempt found a call within the window and was suppressed.
C7_Witness ==
    \E p \in Invocations :
        /\ outcome[p] = "Suppressed"
        /\ eligible[p] = "False"
        /\ ~Invoked(p)

\* C8 as stated: when an Attempt that read the clock at `now` returns Sent, the
\* table holds that `now` as the number's last_call_time.
C8_StoresDecisionTime ==
    [][\A p \in Invocations :
         (pc[p] = "put_item" /\ outcome'[p] = "Sent")
         => table'[phone[p]] = isoformat(current_time[p])]_vars

\* C9: the gate fails closed: an Attempt whose store call before the decision
\* raised (get_item, or create_table behind a failed table_status read), or
\* whose stored last_call_time does not parse, sends no POST and writes
\* nothing; an unparsable record never makes an Attempt eligible.
C9_FailsClosed ==
    \A p \in Invocations :
        (\/ raised[p] \in {"create_table", "ResourceInUseException",
                          "get_item"}
         \/ ClockRead(p) /\ response[p] # NoItem /\ ~parses(response[p]))
        => (~Invoked(p) /\ eligible[p] = "unknown" /\ outcome[p] = ""
            /\ pc[p] = "aborted")

\* Witness C9: one Attempt ended on a failed get_item and another on an
\* unparsable record.
C9_Witness ==
    \E p, q \in Invocations :
        /\ raised[p] = "get_item"
        /\ raised[q] = "fromisoformat"
        /\ response[q] = Junk

\* The calls of an Attempt that can fail.
AttemptFailures == {"create_table", "ResourceInUseException", "get_item",
                    "fromisoformat", "post",
                    "put_item"}

\* C10 as stated: a failure inside an Attempt never aborts the invocation:
\* lambda_handler returns normally.
C10_FailuresAreReturned ==
    \A p \in Invocations : raised[p] \in AttemptFailures => pc[p] = "returned"

\* The step is p's table_status read in create_table_if_not_exists.
ChecksTable(p) == pc[p] = "table_status" /\ pc'[p] # "table_status"
\* p's create_table_if_not_exists has returned and p has not finished.
SchemaEnsured(p) ==
    pc[p] \in {"get_item", "now", "post", "put_item"}

\* C11: create_table_if_not_exists is idempotent.  A call made once the
\* table is there and active (what a completed call leaves: it returns after
\* table_status answered, or after the waiter saw the table it created)
\* returns without raising, creates nothing and leaves the table and its
\* items as they are, unless DescribeTable itself failed; and no step ever
\* takes an active table away or re-creates it.
C11_EnsureSchemaIdempotent ==
    [][/\ table_status = "ACTIVE" => table_status' = "ACTIVE"
       /\ \A p \in Invocations :
            (/\ ChecksTable(p)
             /\ table_status = "ACTIVE"
             /\ caught'[p] # "EndpointConnectionError")
            => /\ pc'[p] = "get_item"
               /\ caught'[p] = ""
               /\ raised'[p] = ""
               /\ table' = table]_vars

\* One invocation has finished an attempt, so its call of
\* create_table_if_not_exists completed; a later call has returned too, with
\* nothing caught and nothing raised.
C11_Witness ==
    \E p, q \in Invocations :
        /\ p # q
        /\ pc[q] = "returned" /\ outcome[q] = "Sent"
        /\ fired = 2
        /\ pc[p] = "get_item" /\ caught[p] = "" /\ raised[p] = ""
        /\ table_status = "ACTIVE"

\* C12: create_table_if_not_exists is safe under concurrent callers: no
\* caller that found the table absent is ended by the exception of
\* create_table on a table another caller created meanwhile, and every
\* caller for which it returned finds the table readable (active).
C12_EnsureSchemaConcurrencySafe ==
    \A p \in Invocations :
        /\ ~(caught[p] = "ResourceNotFoundException"
             /\ raised[p] = "ResourceInUseException")
        /\ SchemaEnsured(p) => table_status = "ACTIVE"

\* The step is p's put_item, and it succeeds.
Writes(p) == pc[p] = "put_item" /\ pc'[p] = "returned"
\* The step is p's put_item, and it raises.
WriteFails(p) == pc[p] = "put_item" /\ pc'[p] = "aborted"

\* C15: read, decide, notify and write are not one atomic step: two
\* invocations can both read before either writes, both call and both write
\* (the witness).  Every write replaces the one item of the key by the time
\* of that write and touches no other key, so after both writes the table
\* holds a single record for the recipient: that of the last write.
C15_LastWriteWins ==
    [][\A p \in Invocations :
        Writes(p) => table' = [table EXCEPT ![phone[p]] = isoformat(clock)]
      ]_vars

\* Both invocations read no item (so both read before either wrote), both
\* were answered 201 and both wrote; the record is the later write's.
C15_Witness ==
    \E p, q \in Invocations :
        /\ p # q /\ phone[p] = phone[q]
        /\ outcome[p] = "Sent" /\ outcome[q] = "Sent"
        /\ response[p] = NoItem /\ response[q] = NoItem
        /\ Accepted(p) /\ Accepted(q)
        /\ clock > CallTime(p) /\ clock > CallTime(q)
        /\ table[phone[p]] = isoformat(clock)

\* C16 as stated: when Twilio accepted the call and put_item then fails,
\* the Attempt returns Error and the table keeps what it held.
C16_PutFailureReturnsError ==
    [][\A p \in Invocations :
        (pc[p] = "put_item" /\ pc'[p] # "put_item" /\ outcome'[p] # "Sent")
        => /\ pc'[p] = "returned"
           /\ outcome'[p] = "Error"
           /\ table' = table]_vars

LastInstant == (MaxInstant \div 2) * cooldown_minutes + (MaxInstant % 2)

\* C18 as stated: whatever the table holds, a call is eventually made and
\* recorded.
C18_EventuallySent ==
    <>(\E p \in Scheduled : outcome[p] = "Sent")

\* C18: the gate never blocks the recipient forever.  With the trigger
\* firing again and again, tours listed, DynamoDB answering and Twilio
\* accepting, and a record that is absent or holds a time: a call is
\* eventually made and recorded, and after each recorded call another one
\* is made and recorded once more than the cooldown has passed.
C18_SentAgainAfterCooldown ==
    /\ (table[your_phone_number] = NoItem)
            ~> (\E p \in Scheduled : outcome[p] = "Sent")
    /\ \A w \in Instants :
            (table[your_phone_number] = isoformat(w)
                /\ LastInstant - w > cooldown_minutes)
            ~> (/\ parses(table[your_phone_number])
                /\ fromisoformat(table[your_phone_number])
                        > w + cooldown_minutes)

\* A call was recorded, and a later Attempt, more than the cooldown after
\* the record it read, was Sent as well.
C18_Witness ==
    \E p \in Scheduled :
        /\ outcome[p] = "Sent"
        /\ parses(response[p])
        /\ current_time[p] - fromisoformat(response[p]) > cooldown_minutes
        /\ committed[phone[p]] # None
        /\ parses(table[phone[p]])
        /\ fromisoformat(table[phone[p]])
                > fromisoformat(response[p]) + cooldown_minutes

\* The step is p's delete_item, and it answers.
Deletes(p) ==
    /\ pc[p] = "delete_item" /\ pc'[p] # "delete_item"
    /\ deleted'[p] # None /\ deleted'[p][1][1] = "deleted"
\* p's clear_call_history deleted (its delete_item answered).
Cleared(p) == deleted[p] # None /\ deleted[p][1][1] = "deleted"
\* The step is the clock reading and decision of p's given test.
TestDecides(p, test) ==
    pc[p] = "t_now" /\ pc'[p] # "t_now" /\ test_number[p] = test
\* The step ends p's given test with the given result.
TestEnds(p, test, actual) ==
    /\ pc[p] \in {"t_now", "t_put_item"} /\ test_number[p] = test
    /\ Len(results'[p].test_results) = Len(results[p].test_results) + 1
    /\ results'[p].test_results[Len(results'[p].test_results)].actual
            = actual

\* C13: a reset returns the recipient to the never-notified state.  A
\* delete_item that answers leaves no item under the recipient's key,
\* whatever was there, and raises nothing (on an absent item the table is
\* unchanged); the Attempt that follows it then reads no item, is eligible at
\* whatever time it reads the clock, and with its write succeeding returns
\* True (Sent).
C13_ResetMakesEligible ==
    [][\A p \in Operators :
        /\ Deletes(p)
            => /\ table' = [table EXCEPT ![phone[p]] = NoItem]
               /\ table[phone[p]] = NoItem => table' = table
               /\ raised'[p] = "" /\ pc'[p] # "aborted"
        /\ (TestDecides(p, 1) /\ Cleared(p))
            => /\ response[p] = NoItem
               /\ eligible'[p] = "True"
               /\ pc'[p] = "t_put_item"
        /\ (pc[p] = "t_put_item" /\ test_number[p] = 1 /\ Cleared(p)
                /\ pc'[p] \notin {"t_put_item", "aborted"})
            => TestEnds(p, 1, TRUE)
      ]_vars

\* A record existed, clear_call_history deleted it, and test 1, deciding
\* within the cooldown of that record, made its call.
C13_Witness ==
    \E p \in Operators :
        /\ deleted[p] = Some(<<"deleted", TRUE>>)
        /\ Len(results[p].test_results) >= 1
        /\ results[p].test_results[1].test = 1
        /\ results[p].test_results[1].actual = TRUE
        /\ clock <= cooldown_minutes
        /\ table[phone[p]] # NoItem

\* A results dict is sound: each entry passed exactly when its actual result
\* is the expected one, and overall_success is true exactly when all passed.
Sound(res) ==
    /\ \A i \in 1..Len(res.test_results) :
            res.test_results[i].passed
                = (res.test_results[i].actual = res.test_results[i].expected)
    /\ res.overall_success
        = (\A i \in 1..Len(res.test_results) :
            res.test_results[i].actual = res.test_results[i].expected)

\* C14 as stated: in every mode the test entry point returns a structured
\* result with per-test pass/fail and a sound overall boolean; in full mode,
\* whatever the table held, test 1 after the reset is eligible, test 2
\* within the cooldown of test 1's record is rate limited, and test 4 after
\* the record was dated back is eligible, so that overall_success is true.
C14_StructuredResultInEveryMode ==
    [][\A p \in Operators :
        /\ (pc[p] # "returned" /\ pc'[p] = "returned")
            => /\ body'[p] # None
               /\ body'[p][1][1] = "results"
               /\ Sound(body'[p][1][2])
        /\ test_type[p] = "full"
            => /\ (TestDecides(p, 1) /\ Cleared(p))
                    => eligible'[p] = "True"
               /\ (TestDecides(p, 2) /\ parses(response[p])
                        /\ Elapsed(p, clock) <= cooldown_minutes)
                    => eligible'[p] = "False"
               /\ (TestDecides(p, 4) /\ parses(response[p]))
                    => eligible'[p] = "True"
      ]_vars

\* C19: access to the table is keyed by the recipient.  A step changes the
\* item of a key only if it is a step of an invocation for that key, and an
\* invocation reads the item of its own key; so whatever is done for one
\* recipient, the item (or absence of an item) of every other one, and with
\* it their eligibility at any time, is unchanged.
C19_KeyedAccess ==
    [][/\ \A n \in PhoneNumbers :
            table'[n] # table[n]
            => \E p \in Operators : pc'[p] # pc[p] /\ phone[p] = n
       /\ \A p \in Operators :
            (pc[p] = "t_get_item" /\ pc'[p] = "t_now")
            => response'[p] = table[phone[p]]
       /\ \A p \in Operators, n \in PhoneNumbers :
            (pc'[p] # pc[p] /\ phone[p] # n)
            => /\ table'[n] = table[n]
               /\ \A now \in Instants :
                    time_difference_ok(table'[n], now)
                        = time_difference_ok(table[n], now)
      ]_vars

\* The test ran for one recipient, deleting its record and writing a new
\* one, while the other recipient's item still holds what it held at the
\* start.
C19_Witness ==
    \E p \in Operators :
        /\ phone[p] = your_phone_number
        /\ deleted[p] = Some(<<"deleted", TRUE>>)
        /\ pc[p] = "returned"
        /\ Len(results[p].test_results) = 3
        /\ parses(table[your_phone_number])
        /\ fired = 1
        /\ table[TEST_PHONE_NUMBER] = Junk
====
